---- MODULE Spec2Model ----
(***************************************************************************)
(* A model of src/src/analyze_photos_exif.py: the EXIF cache               *)
(* (get_exif_data_cached), the category scoring engine                     *)
(* (analyze_photo_for_category), burst detection                           *)
(* (analyze_photo_sequence) and the promotion step of main.                *)
(*                                                                         *)
(* Conventions.  An f-number is held in tenths (28 is f/2.8), so the       *)
(* comparisons of the source against 2.8, 3.5 and 5.6 are integer          *)
(* comparisons.  A capture timestamp is held in tenths of a second, so     *)
(* the one-second burst window is 10.  Category weights are whole numbers, *)
(* which keeps every score a whole number.                                 *)
(***************************************************************************)
EXTENDS Integers, Sequences, FiniteSets, TLC

VARIABLES
    \* the scoring engine
    exif,       \* the EXIF dict handed to analyze_photo_for_category
    config,     \* PhotoAnalyzerConfig.config['categories']
    labels,     \* the labels returned by the calls made so far, in order
    \* the EXIF cache
    now,        \* the clock file times are stamped with
    fileMtime,  \* filepath.stat().st_mtime of each source file
    fileVer,    \* the content version of each source file
    cache,      \* the cache directory: cache file name -> entry
    call,       \* the get_exif_data_cached call in progress on each file
    returned,   \* what the last completed call on each file returned
    cachedSince,  \* the file's own extraction was cached and the file not modified since
    \* burst detection and promotion in main
    arw_files,  \* len(arw_files): how many files main found
    results,    \* what process_files_parallel returned to main
    photoInfo,  \* the photo_info dicts, by identity
    all_photos, \* main's all_photos, a list of identities
    bursts,     \* the value of analyze_photo_sequence(all_photos)
    category_distribution,  \* main's category_distribution
    summary,                \* main's summary with the change count, <<>> before
    mpc,        \* where main stands
    \* process_files_parallel
    settings,   \* config.config: cache_enabled, batch_size, max_workers
    filepaths,  \* the files handed to process_files_parallel, in order
    submitted,  \* how many tasks executor.submit has been given
    batchTask,  \* the get_exif_data_batch tasks: state, tool output, result
    collected,  \* the tasks whose future the as_completed loop has handled
    pool_results,  \* the results list inside process_files_parallel
    \* process_with_progress
    pwIn,       \* its input: how many files, which are readable, progress_file
    pw,         \* the call: run, remaining, position, results, processed
    marker,     \* the progress file on disk
    pwGhost,    \* what the run before the interruption had handled
    \* organize_photos
    orgIn,      \* its input: photos, move_files, and the disk it started on
    disk,       \* the files on disk: path -> content, <<>> for no file
    org         \* the call: position, organized_count, outcome of each record

classifyVars == <<exif, config, labels>>

cacheVars == <<now, fileMtime, fileVer, cache, call, returned, cachedSince>>

mainVars ==
    <<arw_files, results, photoInfo, all_photos, bursts, category_distribution,
      summary, mpc>>

poolVars == <<settings, filepaths, submitted, batchTask, collected, pool_results>>

progressVars == <<pwIn, pw, marker, pwGhost>>

organizeVars == <<orgIn, disk, org>>

runVars == <<poolVars, progressVars, organizeVars>>

vars == <<classifyVars, cacheVars, mainVars, runVars>>

(***************************************************************************)
(* Bounds                                                                  *)
(***************************************************************************)
MaxCalls == 2

MaxTime == 2            \* the clock stops here

MaxVer == 1             \* how often one file is modified

MaxCallsPerFile == 2    \* get_exif_data_cached calls on one file

MaxPhotos == 6          \* the length of a list of photos

MaxFiles == 120         \* the files given to process_with_progress

MaxOrganized == 3       \* the records given to organize_photos

(***************************************************************************)
(* Small helpers                                                           *)
(***************************************************************************)
Max0(x) == IF x > 0 THEN x ELSE 0

Range(s) == {s[i] : i \in 1..Len(s)}

(***************************************************************************)
(* PhotoAnalyzerConfig._load_config: the default categories, in the order  *)
(* the dict literal declares them, and a user configuration, which         *)
(* replaces the whole 'categories' entry (dict.update) and so brings its   *)
(* own order and weights.                                                  *)
(***************************************************************************)
DefaultOrder ==
    <<"Portrait", "Landscape", "Street", "Event", "Wildlife", "Sports",
      "Macro", "Architecture", "Night">>

DefaultRules ==
    [Portrait     |-> [focal_range |-> <<50, 135>>, f_number_max |-> 28, weight |-> 1],
     Landscape    |-> [focal_range |-> <<0, 35>>, f_number_min |-> 80, weight |-> 1],
     Street       |-> [focal_range |-> <<28, 50>>, weight |-> 1],
     Event        |-> [burst_threshold |-> 5, weight |-> 1],
     Wildlife     |-> [focal_range |-> <<200, 999>>, weight |-> 1],
     Sports       |-> [focal_range |-> <<200, 999>>, weight |-> 1],
     Macro        |-> [subject_distance_max |-> 50, weight |-> 1],
     Architecture |-> [focal_range |-> <<0, 24>>, weight |-> 1],
     Night        |-> [iso_min |-> 1600, weight |-> 1]]

DefaultConfig == [order |-> DefaultOrder, rules |-> DefaultRules]

UserOrder ==
    <<"Night", "Architecture", "Landscape", "Portrait", "Street", "Sports",
      "Wildlife", "Macro", "Event">>

UserRules ==
    [DefaultRules EXCEPT !.Street = [focal_range |-> <<28, 50>>, weight |-> 2],
                         !.Sports = [focal_range |-> <<70, 400>>, weight |-> 2]]

UserConfig == [order |-> UserOrder, rules |-> UserRules]

Configs == {DefaultConfig, UserConfig}

\* User configurations whose 'categories' entry, which replaces the default
\* one whole, has no Portrait category, or a Portrait category without a
\* focal_range.  _load_config accepts both.
NoPortraitConfig ==
    [order |-> <<"Landscape", "Night">>,
     rules |-> [Landscape |-> DefaultRules.Landscape, Night |-> DefaultRules.Night]]

NoFocalRangeConfig ==
    [order |-> DefaultOrder,
     rules |-> [DefaultRules EXCEPT !.Portrait = [f_number_max |-> 28, weight |-> 1]]]

MalformedConfigs == {NoPortraitConfig, NoFocalRangeConfig}

\* lines 244 and 248: config.config['categories']['Portrait'] and
\* portrait_config['focal_range'] are read for every record
RaisesKeyError(cfg) ==
    \/ "Portrait" \notin DOMAIN cfg.rules
    \/ "focal_range" \notin DOMAIN cfg.rules["Portrait"]

(***************************************************************************)
(* Field values.  A string field is a string; a field the source parses    *)
(* is a record that says which form the string has.                        *)
(***************************************************************************)
NoFocal == [form |-> "absent", n |-> 0]
Mm(n) == [form |-> "mm", n |-> n]              \* "<n> mm"
BadFocal == [form |-> "text", n |-> 0]         \* a string float() rejects

NoShutter == [form |-> "absent", a |-> 0, b |-> 0]
Frac(a, b) == [form |-> "frac", a |-> a, b |-> b]      \* "<a>/<b>"
WholeShutter(a) == [form |-> "whole", a |-> a, b |-> 1] \* "<a>", no slash
TextShutter == [form |-> "text", a |-> 0, b |-> 0]     \* "x/y", not numbers
TwoSlashShutter == [form |-> "slashes", a |-> 0, b |-> 0] \* "1/2/3"

NoDistance == [form |-> "absent", n |-> 0]
Cm(n) == [form |-> "cm", n |-> n]              \* "<n> cm"
Metres(n) == [form |-> "m", n |-> n]           \* "<n> m": no 'cm' in it
BadCm == [form |-> "textcm", n |-> 0]          \* "about 30 cm"

\* float(focal_length) if focal_length else 0, ValueError giving 0
FocalLengthNum(e) == IF e.FocalLength.form = "mm" THEN e.FocalLength.n ELSE 0

\* float(f_number) if f_number else 0
FNumberNum(e) == e.FNumber

\* int(iso) if iso else 0
IsoNum(e) == e.ISO

\* the lower-case keywords a SceneMode string contains
SceneWords(s) ==
    CASE s = "Portrait" -> {"portrait"}
      [] s = "Landscape" -> {"landscape"}
      [] s = "Night Portrait" -> {"night", "portrait"}
      [] s = "Night Scene" -> {"night"}
      [] OTHER -> {}

\* exif_data.get('LensModel', '') or exif_data.get('LensSpec', '')
LensOf(e) == IF e.LensModel # "" THEN e.LensModel ELSE e.LensSpec

\* 'macro' in lens_model.lower()
IsMacroLens(s) == s \in {"FE 90mm F2.8 Macro G OSS", "E 30mm F3.5 MACRO"}

\* flash and 'No flash' not in flash
FlashFired(s) == s # "" /\ s \notin {"No flash function", "No flash"}

\* range[0] <= focal_length_num <= range[1]
InRangeOpenBelow(r, x) == r[1] < x /\ x <= r[2]

InRange(r, x) == r[1] <= x /\ x <= r[2]

(***************************************************************************)
(* analyze_photo_for_category: one score per category.  B(c) is 1 when     *)
(* the condition holds and 0 otherwise.                                    *)
(***************************************************************************)
B(c) == IF c THEN 1 ELSE 0

\* The focal-length indicator of each category that has one: the amount
\* added, the weight that multiplies it, and the range the focal length is
\* tested against.  The Sports amount is added inside the test of the
\* Wildlife range (lines 333 to 335); the Sports range is never read.
FocalIndicator(c, fl, rules) ==
    CASE c = "Portrait" ->
            4 * rules.Portrait.weight * B(InRange(rules.Portrait.focal_range, fl))
      [] c = "Landscape" ->
            4 * rules.Landscape.weight * B(InRange(rules.Landscape.focal_range, fl))
      [] c = "Street" ->
            3 * rules.Street.weight * B(InRange(rules.Street.focal_range, fl))
      [] c = "Wildlife" ->
            5 * rules.Wildlife.weight * B(InRange(rules.Wildlife.focal_range, fl))
      [] c = "Sports" ->
            4 * rules.Sports.weight * B(InRange(rules.Wildlife.focal_range, fl))
      [] c = "Architecture" ->
            3 * rules.Architecture.weight
              * B(InRange(rules.Architecture.focal_range, fl))

PortraitScore(e, rules) ==
    LET cfg == rules.Portrait
        fl == FocalLengthNum(e)
        fn == FNumberNum(e)
    IN  Max0(  FocalIndicator("Portrait", fl, rules)
             + 3 * cfg.weight * B(fn > 0 /\ fn <= cfg.f_number_max)
             + 6 * cfg.weight * B("portrait" \in SceneWords(e.SceneMode))
             + 2 * cfg.weight
                 * B(e.AFAreaModeSetting \in {"Center", "Spot", "Flexible Spot", "Single Point"})
             + 1 * cfg.weight * B(e.FocusMode \in {"AF-S", "Single AF"})
             + 1 * cfg.weight * B(e.ExposureMode \in {"Aperture Priority", "Manual"})
             - 2 * B(fl < 35)
             - 2 * B(fn > 80))

LandscapeScore(e, rules) ==
    LET cfg == rules.Landscape
        fl == FocalLengthNum(e)
        fn == FNumberNum(e)
    IN  Max0(  FocalIndicator("Landscape", fl, rules)
             + 3 * cfg.weight * B(fn >= cfg.f_number_min)
             + 6 * cfg.weight * B("landscape" \in SceneWords(e.SceneMode))
             + 2 * cfg.weight * B(e.AFAreaModeSetting \in {"Wide", "Zone", "Multi"})
             + 1 * cfg.weight * B(e.FocusMode \in {"AF-S", "Manual"})
             + 1 * cfg.weight * B(e.ExposureMode \in {"Aperture Priority", "Manual"})
             - 2 * B(fl > 100)
             - 2 * B(fn < 40))

StreetScore(e, rules) ==
    LET cfg == rules.Street
        fl == FocalLengthNum(e)
        fn == FNumberNum(e)
    IN  Max0(  FocalIndicator("Street", fl, rules)
             + 2 * cfg.weight * B(35 <= fn /\ fn <= 80)
             + 1 * cfg.weight
                 * B(e.MeteringMode \in {"Average", "Center-weighted average", "Multi-segment"})
             + 2 * cfg.weight * B(e.FocusMode \in {"AF-C", "Continuous AF"})
             + 1 * cfg.weight * B(e.ExposureMode \in {"Aperture Priority", "Program"})
             + 1 * cfg.weight * B(e.AFAreaModeSetting \in {"Wide", "Zone"})
             + 1 * cfg.weight * B(IsoNum(e) >= 400))

WildlifeScore(e, rules) ==
    LET cfg == rules.Wildlife
        fl == FocalLengthNum(e)
    IN  Max0(  FocalIndicator("Wildlife", fl, rules)
             + 2 * cfg.weight * B(e.FocusMode \in {"AF-C", "Continuous AF"})
             + 1 * cfg.weight * B(e.AFAreaModeSetting \in {"Zone", "Wide"}))

\* speed <= 0.002 and speed <= 0.01 with both bounds left out
ShutterPointsStrict(s) ==
    IF s.form = "frac" /\ s.b # 0
    THEN IF s.a * 500 < s.b THEN 3
         ELSE IF s.a * 100 < s.b THEN 1
         ELSE 0
    ELSE 0

\* The shutter-speed indicator, in units of the Sports weight.  The string
\* is split at '/'; two parts that float() accepts give speed = a / b, and
\* everything else, a zero divisor included, ends in the bare except.
ShutterPoints(s) ==
    IF s.form = "frac" /\ s.b # 0
    THEN IF s.a * 500 <= s.b THEN 3          \* speed <= 0.002
         ELSE IF s.a * 100 <= s.b THEN 1     \* speed <= 0.01
         ELSE 0
    ELSE 0

SportsScore(e, rules) ==
    LET cfg == rules.Sports
        fl == FocalLengthNum(e)
    IN  Max0(  FocalIndicator("Sports", fl, rules)
             + 3 * cfg.weight * B(e.FocusMode \in {"AF-C", "Continuous AF"})
             + cfg.weight * ShutterPoints(e.ShutterSpeed)
             + 1 * cfg.weight * B(e.AFAreaModeSetting \in {"Zone", "Wide"}))

\* subject_distance and 'cm' in subject_distance, then float() of the
\* string without ' cm'
DistancePoints(d, cfg) ==
    IF d.form = "cm" /\ d.n < cfg.subject_distance_max THEN 4 ELSE 0

MacroScore(e, rules) ==
    LET cfg == rules.Macro
        fn == FNumberNum(e)
    IN  Max0(  8 * cfg.weight * B(IsMacroLens(LensOf(e)))
             + cfg.weight * DistancePoints(e.SubjectDistance, cfg)
             + 1 * cfg.weight * B(fn >= 80)
             + 1 * cfg.weight * B(e.FocusMode \in {"AF-S", "Manual"}))

NightScore(e, rules) ==
    LET cfg == rules.Night
        fn == FNumberNum(e)
    IN  Max0(  3 * cfg.weight * B(IsoNum(e) >= cfg.iso_min)
             + 6 * cfg.weight * B("night" \in SceneWords(e.SceneMode))
             + 2 * cfg.weight * B(IsoNum(e) >= 3200)
             + 1 * cfg.weight * B(fn >= 28)
             + 1 * cfg.weight * B(FlashFired(e.Flash)))

ArchitectureScore(e, rules) ==
    LET cfg == rules.Architecture
        fl == FocalLengthNum(e)
        fn == FNumberNum(e)
    IN  Max0(  FocalIndicator("Architecture", fl, rules)
             + 2 * cfg.weight * B(56 <= fn /\ fn <= 110)
             + 1 * cfg.weight * B(e.FocusMode \in {"AF-S", "Manual"})
             + 1 * cfg.weight * B(e.AFAreaModeSetting \in {"Center", "Spot"})
             + 1 * cfg.weight * B(e.ExposureMode \in {"Aperture Priority", "Manual"}))

EventScore(e, rules) ==
    Max0(  3 * rules.Event.weight * B(e.BurstMode)
         + 1 * rules.Event.weight * B(e.SequenceNumber # 0))

\* category_scores once every category has been scored
CategoryScores(e, cfg) ==
    [c \in Range(cfg.order) |->
        CASE c = "Portrait" -> PortraitScore(e, cfg.rules)
          [] c = "Landscape" -> LandscapeScore(e, cfg.rules)
          [] c = "Street" -> StreetScore(e, cfg.rules)
          [] c = "Wildlife" -> WildlifeScore(e, cfg.rules)
          [] c = "Sports" -> SportsScore(e, cfg.rules)
          [] c = "Macro" -> MacroScore(e, cfg.rules)
          [] c = "Night" -> NightScore(e, cfg.rules)
          [] c = "Architecture" -> ArchitectureScore(e, cfg.rules)
          [] c = "Event" -> EventScore(e, cfg.rules)
          [] OTHER -> 0]

\* max(category_scores.values())
MaxScore(scores) ==
    CHOOSE m \in {scores[c] : c \in DOMAIN scores} :
        \A c \in DOMAIN scores : scores[c] <= m

confidence_threshold == 3

\* for category, score in category_scores.items(): if score == max_score:
\* return category -- the dict iterates in the order of the configuration
FirstWithScoreReversed(order, scores, m) ==
    LET hits == {i \in 1..Len(order) : scores[order[i]] = m}
    IN  IF hits = {} THEN "Uncategorized"
        ELSE order[CHOOSE i \in hits : \A j \in hits : j <= i]

FirstWithScore(order, scores, m) ==
    LET hits == {i \in 1..Len(order) : scores[order[i]] = m}
    IN  IF hits = {} THEN "Uncategorized"
        ELSE order[CHOOSE i \in hits : \A j \in hits : i <= j]

\* if max_score < confidence_threshold: return 'Uncategorized'
BelowThresholdInclusive(m) == m <= confidence_threshold

BelowThreshold(m) == m < confidence_threshold

\* what is returned when the threshold is not met
LowConfidenceLabelUnknown == "Unknown"

LowConfidenceLabel == "Uncategorized"

analyze_photo_for_category(e, cfg) ==
    LET scores == CategoryScores(e, cfg)
        m == MaxScore(scores)
    IN  IF BelowThreshold(m) THEN LowConfidenceLabel
        ELSE FirstWithScore(cfg.order, scores, m)

(***************************************************************************)
(* The EXIF records the scoring engine is run on: three slices of the      *)
(* field space, each the full product of the values of its fields with the *)
(* other fields absent.                                                    *)
(***************************************************************************)
BlankExif ==
    [FocalLength |-> NoFocal, FNumber |-> 0, ISO |-> 0, ShutterSpeed |-> NoShutter,
     MeteringMode |-> "", FocusMode |-> "", AFAreaModeSetting |-> "",
     SceneMode |-> "", SubjectDistance |-> NoDistance, LensModel |-> "",
     LensSpec |-> "", ExposureMode |-> "", Flash |-> "", BurstMode |-> FALSE,
     SequenceNumber |-> 0]

OpticsSlice ==
    { [BlankExif EXCEPT !.FocalLength = fl, !.FNumber = fn, !.ISO = iso,
                        !.FocusMode = fm, !.AFAreaModeSetting = af,
                        !.SceneMode = sc, !.ExposureMode = ex] :
        fl \in {NoFocal, Mm(20), Mm(35), Mm(50), Mm(150), Mm(300)},
        fn \in {0, 18, 40, 80, 160},
        iso \in {0, 400, 3200},
        fm \in {"", "AF-S", "AF-C", "Manual"},
        af \in {"", "Center", "Wide"},
        sc \in {"", "Portrait", "Landscape", "Night Portrait"},
        ex \in {"", "Aperture Priority", "Manual"} }

ContextSlice ==
    { [BlankExif EXCEPT !.FocalLength = fl, !.FocusMode = fm, !.ShutterSpeed = sh,
                        !.MeteringMode = mm, !.SubjectDistance = sd,
                        !.LensModel = lm, !.LensSpec = ls, !.Flash = fla,
                        !.BurstMode = bm, !.SequenceNumber = sq] :
        fl \in {BadFocal, Mm(150), Mm(300)},
        fm \in {"", "Continuous AF"},
        sh \in {NoShutter, Frac(1, 1000), Frac(1, 250), Frac(1, 0), TextShutter},
        mm \in {"", "Multi-segment"},
        sd \in {NoDistance, Cm(30), Metres(2)},
        lm \in {"", "FE 90mm F2.8 Macro G OSS"},
        ls \in {"", "E 30mm F3.5 MACRO"},
        fla \in {"", "No flash function", "Fired"},
        bm \in BOOLEAN,
        sq \in {0, 7} }

\* the forms a ShutterSpeed string takes, on both sides of 1/500 and 1/100
ShutterForms ==
    {NoShutter, Frac(1, 1000), Frac(1, 500), Frac(2, 1000), Frac(1, 499),
     Frac(1, 250), Frac(1, 100), Frac(1, 99), Frac(1, 2), Frac(1, 0),
     WholeShutter(2), TextShutter, TwoSlashShutter}

ShutterSlice ==
    { [BlankExif EXCEPT !.FocalLength = fl, !.FocusMode = fm, !.ShutterSpeed = sh,
                        !.AFAreaModeSetting = af] :
        fl \in {Mm(150), Mm(300)},
        fm \in {"", "AF-C"},
        sh \in ShutterForms,
        af \in {"", "Zone"} }

ExifRecords == OpticsSlice \cup ContextSlice \cup ShutterSlice

(***************************************************************************)
(* The scoring engine: a record and a configuration are fixed, and         *)
(* analyze_photo_for_category is called on them, up to MaxCalls times.     *)
(***************************************************************************)
\* The components a behaviour does not exercise stay as they are here.
ClassifyAtRest == exif = BlankExif /\ config = DefaultConfig /\ labels = <<>>

ClassifyInit ==
    /\ exif \in ExifRecords
    /\ config \in Configs
    /\ labels = <<>>

Classify ==
    /\ Len(labels) < MaxCalls
    /\ labels' = Append(labels, analyze_photo_for_category(exif, config))
    /\ UNCHANGED <<exif, config>>
    /\ UNCHANGED <<cacheVars, mainVars, runVars>>

(***************************************************************************)
(* get_exif_data_cached.  The source files, two of them with the same      *)
(* stem in different directories; Path.stem drops the directories and the  *)
(* suffix.                                                                 *)
(***************************************************************************)
Files == {"2024/DSC1.ARW", "trip/DSC1.ARW"}

stem(filepath) ==
    CASE filepath = "2024/DSC1.ARW" -> "DSC1"
      [] filepath = "trip/DSC1.ARW" -> "DSC1"
      [] filepath = "2024/DSC2.ARW" -> "DSC2"

\* cache_file = cache_dir / f"{filepath.stem}_exif.pkl"; the cache directory
\* is indexed here by the part of the name that varies
cache_file(filepath) == stem(filepath)

CacheFiles == {cache_file(f) : f \in Files}

\* what the extractor reads from a file: whose content, and which version
NoData == [src |-> "", ver |-> 0]

ExifOf(f, v) == [src |-> f, ver |-> v]

NoEntry == [exists |-> FALSE, mtime |-> 0, data |-> NoData, intact |-> FALSE]

\* cache_file.stat().st_mtime > filepath.stat().st_mtime
IsNewerOrSame(entry, mtime) == entry.mtime >= mtime

IsOlder(entry, mtime) == entry.mtime < mtime

IsNewer(entry, mtime) == entry.mtime > mtime

\* cache_file.exists() and cache_file.stat().st_mtime > filepath.stat().st_mtime
CacheLooksValid(f) ==
    LET entry == cache[cache_file(f)]
    IN  entry.exists /\ IsNewer(entry, fileMtime[f])

CacheAtRest ==
    /\ now = 0
    /\ fileMtime = [f \in Files |-> 0]
    /\ fileVer = [f \in Files |-> 0]
    /\ cache = [k \in CacheFiles |-> NoEntry]
    /\ call = [f \in Files |-> [pc |-> "idle", data |-> NoData, n |-> 0]]
    /\ returned = [f \in Files |-> [how |-> "no call", data |-> NoData]]
    /\ cachedSince = [f \in Files |-> FALSE]

\* The files were last modified before the run starts; the cache is empty.
CacheInit ==
    /\ now = 1
    /\ fileMtime = [f \in Files |-> 0]
    /\ fileVer = [f \in Files |-> 0]
    /\ cache = [k \in CacheFiles |-> NoEntry]
    /\ call = [f \in Files |-> [pc |-> "idle", data |-> NoData, n |-> 0]]
    /\ returned = [f \in Files |-> [how |-> "no call", data |-> NoData]]
    /\ cachedSince = [f \in Files |-> FALSE]

\* Lines 88-99: the call starts; a cache file that looks valid and unpickles
\* is returned, and everything else goes on to the extractor.
CachedCallBegin(f) ==
    /\ call[f].pc = "idle"
    /\ call[f].n < MaxCallsPerFile
    /\ LET entry == cache[cache_file(f)]
       IN  IF CacheLooksValid(f) /\ entry.intact
           THEN /\ call' = [call EXCEPT ![f].n = @ + 1]
                /\ returned' = [returned EXCEPT ![f] = [how |-> "cached", data |-> entry.data]]
           ELSE /\ call' = [call EXCEPT ![f].n = @ + 1, ![f].pc = "extract"]
                /\ UNCHANGED returned
    /\ UNCHANGED <<now, fileMtime, fileVer, cache, cachedSince>>
    /\ UNCHANGED <<classifyVars, mainVars, runVars>>

\* Line 91 stands outside every try: when the cache file cannot be
\* examined (exists() or stat() raises OSError, as on a cache directory
\* that may not be searched, or on a cache file removed between the two),
\* the exception leaves get_exif_data_cached and the extractor is not run.
CacheStatRaises(f) ==
    /\ call[f].pc = "idle"
    /\ call[f].n < MaxCallsPerFile
    /\ call' = [call EXCEPT ![f].n = @ + 1]
    /\ returned' = [returned EXCEPT ![f] = [how |-> "raised", data |-> NoData]]
    /\ UNCHANGED <<now, fileMtime, fileVer, cache, cachedSince>>
    /\ UNCHANGED <<classifyVars, mainVars, runVars>>

\* Line 101 and get_exif_data: exiftool reads the file as it is now.
ExtractOk(f) ==
    /\ call[f].pc = "extract"
    /\ call' = [call EXCEPT ![f].pc = "write", ![f].data = ExifOf(f, fileVer[f])]
    /\ UNCHANGED <<now, fileMtime, fileVer, cache, returned, cachedSince>>
    /\ UNCHANGED <<classifyVars, mainVars, runVars>>

\* get_exif_data returns None: a timeout, a non-zero exit, output that does
\* not parse.  Nothing is cached and None is returned.
ExtractFails(f) ==
    /\ call[f].pc = "extract"
    /\ call' = [call EXCEPT ![f].pc = "idle", ![f].data = NoData]
    /\ returned' = [returned EXCEPT ![f] = [how |-> "nothing", data |-> NoData]]
    /\ UNCHANGED <<now, fileMtime, fileVer, cache, cachedSince>>
    /\ UNCHANGED <<classifyVars, mainVars, runVars>>

\* Lines 103-110: the record is pickled into the cache file and returned.
CacheWriteOk(f) ==
    /\ call[f].pc = "write"
    /\ cache' = [cache EXCEPT ![cache_file(f)] =
                    [exists |-> TRUE, mtime |-> now, data |-> call[f].data, intact |-> TRUE]]
    /\ cachedSince' = [cachedSince EXCEPT ![f] = TRUE]
    /\ returned' = [returned EXCEPT ![f] = [how |-> "fresh", data |-> call[f].data]]
    /\ call' = [call EXCEPT ![f].pc = "idle", ![f].data = NoData]
    /\ UNCHANGED <<now, fileMtime, fileVer>>
    /\ UNCHANGED <<classifyVars, mainVars, runVars>>

\* open() raises: the cache file is untouched, the record is still returned.
CacheOpenFails(f) ==
    /\ call[f].pc = "write"
    /\ returned' = [returned EXCEPT ![f] = [how |-> "fresh", data |-> call[f].data]]
    /\ call' = [call EXCEPT ![f].pc = "idle", ![f].data = NoData]
    /\ UNCHANGED <<now, fileMtime, fileVer, cache, cachedSince>>
    /\ UNCHANGED <<classifyVars, mainVars, runVars>>

\* pickle.dump raises after open() truncated the file: what is left does
\* not unpickle.  The record is still returned.
CacheDumpFails(f) ==
    /\ call[f].pc = "write"
    /\ cache' = [cache EXCEPT ![cache_file(f)] =
                    [exists |-> TRUE, mtime |-> now, data |-> NoData, intact |-> FALSE]]
    /\ returned' = [returned EXCEPT ![f] = [how |-> "fresh", data |-> call[f].data]]
    /\ call' = [call EXCEPT ![f].pc = "idle", ![f].data = NoData]
    /\ UNCHANGED <<now, fileMtime, fileVer, cachedSince>>
    /\ UNCHANGED <<classifyVars, mainVars, runVars>>

\* The environment: time passes, and a source file is modified.
Tick ==
    /\ now < MaxTime
    /\ now' = now + 1
    /\ UNCHANGED <<fileMtime, fileVer, cache, call, returned, cachedSince>>
    /\ UNCHANGED <<classifyVars, mainVars, runVars>>

ModifyFile(f) ==
    /\ fileVer[f] < MaxVer
    /\ fileVer' = [fileVer EXCEPT ![f] = @ + 1]
    /\ fileMtime' = [fileMtime EXCEPT ![f] = now]
    /\ cachedSince' = [cachedSince EXCEPT ![f] = FALSE]
    /\ UNCHANGED <<now, cache, call, returned>>
    /\ UNCHANGED <<classifyVars, mainVars, runVars>>

CacheNext ==
    \/ \E f \in Files : CachedCallBegin(f)
    \/ \E f \in Files : CacheStatRaises(f)
    \/ \E f \in Files : ExtractOk(f)
    \/ \E f \in Files : ExtractFails(f)
    \/ \E f \in Files : CacheWriteOk(f)
    \/ \E f \in Files : CacheOpenFails(f)
    \/ \E f \in Files : CacheDumpFails(f)
    \/ \E f \in Files : ModifyFile(f)
    \/ Tick

(***************************************************************************)
(* analyze_photo_sequence.  A photo_info dict is known by its identity;    *)
(* photoInfo holds the dicts, and the lists (all_photos, a burst, a        *)
(* category's list) hold identities, so that a change to a dict is seen    *)
(* through every list that holds it.  A file name "DSC0000n.ARW" is held   *)
(* as the number n, which orders as the name does.                         *)
(***************************************************************************)
BurstWindow == 10       \* one second, in tenths

MinBurst == 5

\* the sort key (x.get('capture_timestamp', 0), x['filename']), compared as
\* Python compares tuples
KeyLess(a, b) ==
    \/ a.capture_timestamp < b.capture_timestamp
    \/ /\ a.capture_timestamp = b.capture_timestamp
       /\ a.filename < b.filename

\* sorted(): stable, so among equal keys the order of the input stays
RECURSIVE InsertSorted(_, _, _)
InsertSorted(info, s, x) ==
    IF s = <<>> THEN <<x>>
    ELSE IF KeyLess(info[x], info[Head(s)]) THEN <<x>> \o s
    ELSE <<Head(s)>> \o InsertSorted(info, Tail(s), x)

RECURSIVE SortPhotos(_, _)
SortPhotos(info, photos) ==
    IF photos = <<>> THEN <<>>
    ELSE InsertSorted(info, SortPhotos(info, SubSeq(photos, 1, Len(photos) - 1)),
                      photos[Len(photos)])

\* for i, p in enumerate(sorted_photos): if p == photo and i > 0:
\* append sorted_photos[i-1]; break -- dicts compare by content
PreviousPhoto(info, sorted, photo) ==
    LET hits == {i \in 2..Len(sorted) : info[sorted[i]] = info[photo]}
    IN  IF hits = {} THEN <<>>
        ELSE <<sorted[(CHOOSE i \in hits : \A j \in hits : i <= j) - 1]>>

\* last_timestamp != 0 and current_timestamp - last_timestamp <= 1
WithinWindowNoZeroCheck(last, current) == current - last <= BurstWindow

WithinWindowStrict(last, current) == last # 0 /\ current - last < BurstWindow

WithinWindow(last, current) == last # 0 /\ current - last <= BurstWindow

\* len(current_burst) >= 5
LongEnoughOffByOne(burst) == Len(burst) >= MinBurst - 1

LongEnough(burst) == Len(burst) >= MinBurst

\* The loop over sorted_photos from position i on, with the values of
\* bursts, current_burst and last_timestamp on entry; the result is bursts
\* after the loop and the final check of current_burst.
RECURSIVE ScanPhotos(_, _, _, _, _, _)
ScanPhotos(info, sorted, i, found, current_burst, last_timestamp) ==
    IF i > Len(sorted)
    THEN IF LongEnough(current_burst) THEN Append(found, current_burst) ELSE found
    ELSE LET photo == sorted[i]
             current_timestamp == info[photo].capture_timestamp
         IN  IF WithinWindow(last_timestamp, current_timestamp)
             THEN ScanPhotos(info, sorted, i + 1, found,
                             (IF current_burst = <<>>
                              THEN PreviousPhoto(info, sorted, photo)
                              ELSE current_burst) \o <<photo>>,
                             current_timestamp)
             ELSE ScanPhotos(info, sorted, i + 1,
                             IF LongEnough(current_burst)
                             THEN Append(found, current_burst) ELSE found,
                             <<>>, current_timestamp)

analyze_photo_sequence(info, photos) ==
    IF photos = <<>> THEN <<>>
    ELSE ScanPhotos(info, SortPhotos(info, photos), 1, <<>>, <<>>, 0)

(***************************************************************************)
(* The inputs of analyze_photo_sequence: every list of up to MaxPhotos     *)
(* photos with timestamps from a few values around the window, 0 (unknown) *)
(* among them, and the named lists below.  File names either run against   *)
(* the order of the list or repeat in pairs (the same base name in two     *)
(* directories).                                                           *)
(***************************************************************************)
Timestamps == {0, 5, 10, 20, 35}

\* 100, 100.5, 101, 101.4, 101.8 and 102.3 seconds, out of order
SixInARow == <<1010, 1000, 1023, 1005, 1018, 1014>>

\* two runs of five and six photos, twenty seconds apart, and two undated
TwoRuns == <<1000, 1205, 1004, 0, 1210, 1008, 1215, 1012, 1220, 1016, 0, 1225, 1230>>

NameOf(layout, i) == IF layout = "descending" THEN 20 - i ELSE (i + 1) \div 2

PhotoLists ==
    UNION {[1..n -> Timestamps] : n \in 0..MaxPhotos} \cup {SixInARow, TwoRuns}

PhotoDicts(ts, layout) ==
    [i \in 1..Len(ts) |->
        [filepath |-> i, filename |-> NameOf(layout, i),
         capture_timestamp |-> ts[i], analyzed_category |-> "Uncategorized"]]

Identities(n) == [i \in 1..n |-> i]

MainAtRest ==
    /\ arw_files = 0
    /\ results = <<>>
    /\ photoInfo = <<>>
    /\ all_photos = <<>>
    /\ bursts = <<>>
    /\ category_distribution = <<>>
    /\ summary = <<>>
    /\ mpc = "idle"

BurstInit ==
    /\ \E ts \in PhotoLists, layout \in {"descending", "pairs"} :
          /\ photoInfo = PhotoDicts(ts, layout)
          /\ all_photos = Identities(Len(ts))
    /\ arw_files = Len(all_photos)
    /\ results = <<>>
    /\ bursts = <<>>
    /\ category_distribution = <<>>
    /\ summary = <<>>
    /\ mpc = "call"

AnalyzeSequence ==
    /\ mpc = "call"
    /\ bursts' = analyze_photo_sequence(photoInfo, all_photos)
    /\ mpc' = "returned"
    /\ UNCHANGED <<arw_files, results, photoInfo, all_photos, category_distribution, summary>>
    /\ UNCHANGED <<classifyVars, cacheVars, runVars>>

(***************************************************************************)
(* main, standard path: lines 609 to 644.  process_files_parallel has       *)
(* returned; each result is turned into a photo_info dict and scored, the  *)
(* bursts are detected, and their members are moved to Event.              *)
(***************************************************************************)
NoDate == [form |-> "absent", t |-> 0]
TextDate == [form |-> "text", t |-> 0]         \* not '%Y:%m:%d %H:%M:%S'
DateAt(t) == [form |-> "date", t |-> t]       \* a date, t tenths of a second

\* datetime.strptime(...).timestamp(), and 0 when strptime raises
CaptureTimestamp(d) == IF d.form = "date" THEN d.t ELSE 0

\* filepath.parent.name
ParentName(filepath) ==
    CASE filepath \in {"2024/DSC1.ARW", "2024/DSC2.ARW", "2024/P2.ARW"} -> "2024"
      [] filepath = "trip/DSC1.ARW" -> "trip"
      [] filepath = "Portrait/P1.ARW" -> "Portrait"
      [] filepath = "Street/P3.ARW" -> "Street"
      [] filepath = "organized_photos/P4.ARW" -> "organized_photos"
      [] filepath = "Event/P5.ARW" -> "Event"
      [] filepath = "Uncategorized/P6.ARW" -> "Uncategorized"
      [] filepath = "09/P7.ARW" -> "09"
      [] filepath = "Architecture/P8.ARW" -> "Architecture"

\* lines 790-792: the directory of the file is its current category,
\* unless it is one of three names; "" stands for a dict without the key
CurrentCategory(filepath) ==
    IF ParentName(filepath) \notin {"organized_photos", "2024", "09"}
    THEN ParentName(filepath) ELSE ""

\* process_photo_data, as far as main and analyze_photo_sequence read it
process_photo_data(filepath, exif_data) ==
    [filepath |-> filepath,
     filename |-> exif_data.FileName,
     capture_date |-> exif_data.DateTimeOriginal,
     capture_timestamp |-> CaptureTimestamp(exif_data.DateTimeOriginal),
     current_category |-> CurrentCategory(filepath),
     analyzed_category |-> ""]

AllLabels == Range(DefaultOrder) \cup {"Uncategorized"}

\* lines 617-630: every result becomes a dict, is scored, and is appended
\* to all_photos and to its category's list
RECURSIVE ScoreResults(_, _, _)
ScoreResults(res, cfg, st) ==
    IF res = <<>> THEN st
    ELSE LET r == Head(res)
             category == analyze_photo_for_category(r.exif_data.exif, cfg)
             photo_info == [process_photo_data(r.filepath, r.exif_data)
                              EXCEPT !.analyzed_category = category]
         IN  ScoreResults(Tail(res), cfg,
                 [info |-> Append(st.info, photo_info),
                  photos |-> Append(st.photos, Len(st.info) + 1),
                  dist |-> [st.dist EXCEPT ![category] = Append(@, Len(st.info) + 1)]])

\* list.remove(photo): the first element equal to photo goes
RemoveFirst(info, list, photo) ==
    LET hits == {i \in 1..Len(list) : info[list[i]] = info[photo]}
    IN  IF hits = {} THEN list
        ELSE LET i == CHOOSE k \in hits : \A j \in hits : k <= j
             IN  SubSeq(list, 1, i - 1) \o SubSeq(list, i + 1, Len(list))

\* lines 641-644, for one photo of one burst
PromoteListsOnly(st, photo) ==
    LET old == st.info[photo].analyzed_category
    IN  IF old # "Event"
        THEN [info |-> st.info,
              dist |-> [st.dist EXCEPT ![old] = RemoveFirst(st.info, @, photo),
                                       !["Event"] = Append(@, photo)]]
        ELSE st

Promote(st, photo) ==
    LET old == st.info[photo].analyzed_category
    IN  IF old # "Event"
        THEN [info |-> [st.info EXCEPT ![photo].analyzed_category = "Event"],
              dist |-> [st.dist EXCEPT ![old] = RemoveFirst(st.info, @, photo),
                                       !["Event"] = Append(@, photo)]]
        ELSE st

\* for burst in bursts: for photo in burst: ...
RECURSIVE PromoteBurst(_, _)
PromoteBurst(st, burst) ==
    IF burst = <<>> THEN st
    ELSE PromoteBurst(Promote(st, Head(burst)), Tail(burst))

RECURSIVE PromoteAll(_, _)
PromoteAll(st, bs) ==
    IF bs = <<>> THEN st
    ELSE PromoteAll(PromoteBurst(st, Head(bs)), Tail(bs))

(***************************************************************************)
(* The results main starts from: up to MaxPhotos files, each with a        *)
(* capture date or none, and EXIF that the scoring engine labels           *)
(* differently from file to file.                                          *)
(***************************************************************************)
Dates == {NoDate, DateAt(1000), DateAt(1010), DateAt(1030)}

\* seven files: one with a date that does not parse, then six shot within
\* three seconds
OneBurstOfSix ==
    <<TextDate, DateAt(5000), DateAt(5010), DateAt(5010), DateAt(5020),
      DateAt(5030), DateAt(5030)>>

DateLists == UNION {[1..n -> Dates] : n \in 0..MaxPhotos} \cup {OneBurstOfSix}

PortraitShot == [BlankExif EXCEPT !.FocalLength = Mm(50), !.FNumber = 18]
LongLensShot == [BlankExif EXCEPT !.FocalLength = Mm(150)]
BurstShot == [BlankExif EXCEPT !.FocalLength = Mm(150), !.BurstMode = TRUE]
NightShot == [BlankExif EXCEPT !.FocalLength = Mm(150), !.ISO = 3200]

ExifAt(layout, i) ==
    IF layout = "descending"
    THEN CASE i % 3 = 1 -> PortraitShot
           [] i % 3 = 2 -> BlankExif
           [] OTHER -> LongLensShot
    ELSE IF i % 2 = 1 THEN BurstShot ELSE NightShot

\* the files of the results, in directories that name a category, a year,
\* a month or the output of an earlier run
PhotoPaths ==
    <<"Portrait/P1.ARW", "2024/P2.ARW", "Street/P3.ARW", "organized_photos/P4.ARW",
      "Event/P5.ARW", "Uncategorized/P6.ARW", "09/P7.ARW", "Architecture/P8.ARW">>

ResultsOf(dates, layout) ==
    [i \in 1..Len(dates) |->
        [filepath |-> PhotoPaths[i],
         exif_data |-> [FileName |-> NameOf(layout, i),
                        DateTimeOriginal |-> dates[i],
                        exif |-> ExifAt(layout, i)]]]

\* line 591: more files than this and main takes the streaming path
LargeCollection == 10000

TakesLargePath(n) == n > LargeCollection

\* The extraction is over and has given main the records of the files it
\* could read, a few of the files found: main found exactly
\* LargeCollection files, or one more.  No name of lines 612-614 is bound
\* yet.
MainInit ==
    /\ \E dates \in DateLists, layout \in {"descending", "pairs"} :
          results = ResultsOf(dates, layout)
    /\ arw_files \in {LargeCollection, LargeCollection + 1}
    /\ photoInfo = <<>>
    /\ all_photos = <<>>
    /\ bursts = <<>>
    /\ category_distribution = <<>>
    /\ summary = <<>>
    /\ mpc = "results"

\* category_distribution = defaultdict(list), line 614
EmptyDistribution == [c \in AllLabels |-> <<>>]

\* lines 606-630, the standard path.  With a configuration that lacks a
\* rule the first record is appended to all_photos (line 620) and
\* analyze_photo_for_category raises KeyError on it (line 628).
ScorePhotos ==
    /\ mpc = "results"
    /\ ~TakesLargePath(arw_files)
    /\ IF results # <<>> /\ RaisesKeyError(config)
       THEN /\ photoInfo' = <<process_photo_data(results[1].filepath, results[1].exif_data)>>
            /\ all_photos' = <<1>>
            /\ category_distribution' = EmptyDistribution
            /\ mpc' = "KeyError"
       ELSE LET st == ScoreResults(results, config,
                         [info |-> <<>>, photos |-> <<>>, dist |-> EmptyDistribution])
            IN  /\ photoInfo' = st.info
                /\ all_photos' = st.photos
                /\ category_distribution' = st.dist
                /\ mpc' = "scored"
    /\ UNCHANGED <<arw_files, results, bursts, summary>>
    /\ UNCHANGED <<classifyVars, cacheVars, runVars>>

\* lines 591-605, the streaming path: the records come back from the
\* temporary file and each becomes a photo_info dict; nothing scores them
\* and category_distribution is never bound
LoadStreamed ==
    /\ mpc = "results"
    /\ TakesLargePath(arw_files)
    /\ photoInfo' = [i \in 1..Len(results) |->
                        process_photo_data(results[i].filepath, results[i].exif_data)]
    /\ all_photos' = Identities(Len(results))
    /\ mpc' = "loaded"
    /\ UNCHANGED <<arw_files, results, bursts, category_distribution, summary>>
    /\ UNCHANGED <<classifyVars, cacheVars, runVars>>

\* line 633
DetectBursts ==
    /\ mpc \in {"scored", "loaded"}
    /\ bursts' = analyze_photo_sequence(photoInfo, all_photos)
    /\ mpc' = "detected"
    /\ UNCHANGED <<arw_files, results, photoInfo, all_photos, category_distribution, summary>>
    /\ UNCHANGED <<classifyVars, cacheVars, runVars>>

\* photo['analyzed_category'] on a dict that has no such key
Unscored(info, bs) ==
    \E i \in 1..Len(bs) : \E k \in 1..Len(bs[i]) : info[bs[i][k]].analyzed_category = ""

\* lines 636-644; the records are scored all or none, so an unscored burst
\* raises KeyError at line 641 on its first photo
PromoteBursts ==
    /\ mpc = "detected"
    /\ IF Unscored(photoInfo, bursts)
       THEN /\ mpc' = "KeyError"
            /\ UNCHANGED <<photoInfo, category_distribution>>
       ELSE LET st == PromoteAll([info |-> photoInfo, dist |-> category_distribution], bursts)
            IN  /\ photoInfo' = st.info
                /\ category_distribution' = st.dist
                /\ mpc' = "promoted"
    /\ UNCHANGED <<arw_files, results, all_photos, bursts, summary>>
    /\ UNCHANGED <<classifyVars, cacheVars, runVars>>

\* p.get('capture_date'): None without DateTimeOriginal, else the string,
\* which is true whether or not it parses
HasCaptureDate(photo) == photo.capture_date.form # "absent"

\* photo.get('current_category', 'Unknown')
CurrentOrUnknown(photo) ==
    IF photo.current_category = "" THEN "Unknown" ELSE photo.current_category

\* lines 685-689: category_comparison[current][analyzed] counts the photos
\* with that pair; a pair that is not a key counts 0 here
category_comparison(info, photos) ==
    [pair \in {<<CurrentOrUnknown(info[photos[i]]), info[photos[i]].analyzed_category>> :
                  i \in 1..Len(photos)} |->
        Cardinality({i \in 1..Len(photos) :
            /\ CurrentOrUnknown(info[photos[i]]) = pair[1]
            /\ info[photos[i]].analyzed_category = pair[2]})]

RECURSIVE SumOf(_, _)
SumOf(f, S) ==
    IF S = {} THEN 0
    ELSE LET x == CHOOSE y \in S : TRUE
         IN  f[x] + SumOf(f, S \ {x})

\* create_json_summary, lines 905-911: over every current category, the
\* counts of the analyzed categories that differ from it
total_changes(comparison) ==
    SumOf(comparison, {pair \in DOMAIN comparison : pair[2] # pair[1]})

\* Lines 646-689 and create_json_summary, with the optional Claude step
\* disabled (no API key), which leaves every name as it is.  The dict
\* literal of line 667 is evaluated in order: min() of line 670 raises
\* ValueError when no photo has a capture date, and line 673 raises
\* NameError when the streaming path left category_distribution unbound.
\* A category that is not a key of category_distribution counts 0 here.
Summarize ==
    /\ mpc = "promoted"
    /\ IF \A i \in 1..Len(all_photos) : ~HasCaptureDate(photoInfo[all_photos[i]])
       THEN mpc' = "ValueError" /\ UNCHANGED summary
       ELSE IF category_distribution = <<>>
       THEN mpc' = "NameError" /\ UNCHANGED summary
       ELSE /\ summary' =
                 [total_files |-> Len(all_photos),
                  analyzed_categories |->
                      [c \in DOMAIN category_distribution |->
                          Len(category_distribution[c])],
                  burst_sequences |-> Len(bursts),
                  total_changes |->
                      total_changes(category_comparison(photoInfo, all_photos))]
            /\ mpc' = "summarized"
    /\ UNCHANGED <<arw_files, results, photoInfo, all_photos, bursts, category_distribution>>
    /\ UNCHANGED <<classifyVars, cacheVars, runVars>>

MainNext == ScorePhotos \/ LoadStreamed \/ DetectBursts \/ PromoteBursts \/ Summarize

(***************************************************************************)
(* organize_photos.  A path is the tuple of its parts and the content of   *)
(* a file is named by the path the photo was first found at; the records   *)
(* are those of distinct files, as main makes one record per file found,   *)
(* in a source tree the output directory is not part of.                   *)
(***************************************************************************)
SourcePaths ==
    {<<"a", "DSC1.ARW">>, <<"b", "DSC1.ARW">>, <<"a", "DSC2.ARW">>, <<"b", "DSC2.ARW">>}

\* source_path.name
PathName(path) == path[Len(path)]

\* f"{photo['year']}-{photo['month']:02d}"
DateDir(year, month) == IF year = 2024 /\ month = 9 THEN "2024-09" ELSE "0000-00"

\* photo.get('analyzed_category', 'Uncategorized')
CategoryOf(photo) ==
    IF photo.analyzed_category = "" THEN "Uncategorized" ELSE photo.analyzed_category

\* lines 519-528: the category directory, and in it the directory of the
\* month when the record has a year and a month (0 stands for a missing key)
TargetDir(photo) ==
    IF photo.year # 0 /\ photo.month # 0
    THEN <<"organized", CategoryOf(photo), DateDir(photo.year, photo.month)>>
    ELSE <<"organized", CategoryOf(photo)>>

\* target_dir / source_path.name
TargetPath(photo) == TargetDir(photo) \o <<PathName(photo.filepath)>>

\* the records: DSC1 has a capture date that parses, DSC2 has not
OrganizeRecords ==
    { [filepath |-> f, analyzed_category |-> c,
       year |-> IF PathName(f) = "DSC1.ARW" THEN 2024 ELSE 0,
       month |-> IF PathName(f) = "DSC1.ARW" THEN 9 ELSE 0] :
        f \in SourcePaths, c \in {"Portrait", "Event"} }

OrganizeLists ==
    { ps \in UNION {[1..n -> OrganizeRecords] : n \in 0..MaxOrganized} :
        \A i, j \in 1..Len(ps) : ps[i].filepath = ps[j].filepath => i = j }

TargetPaths == {TargetPath(photo) : photo \in OrganizeRecords}

OrganizePaths == SourcePaths \cup TargetPaths

\* a target that an earlier run, or anyone, has left in the output directory
OldTarget == <<"organized", "Portrait", "2024-09", "DSC1.ARW">>

\* the disks a call starts on: every source file is there, or one has gone
\* since it was read; the output directory is empty, or holds one file
Disks ==
    { [path \in OrganizePaths |->
          IF path \in SourcePaths
          THEN IF path \in missing THEN <<>> ELSE path
          ELSE IF path \in old THEN <<"old">> ELSE <<>>] :
        missing \in {{}, {<<"a", "DSC1.ARW">>}}, old \in {{}, {OldTarget}} }

\* organized_count = defaultdict(int); a category that is not a key is 0
ZeroCount == [c \in {"Portrait", "Event", "Uncategorized"} |-> 0]

OrganizeAtRest ==
    /\ orgIn = [photos |-> <<>>, move_files |-> FALSE, disk |-> <<>>]
    /\ disk = <<>>
    /\ org = [pc |-> "idle", i |-> 0, organized_count |-> ZeroCount, log |-> <<>>]

\* organize_photos(photos, output_dir, move_files) is called: line 513
OrganizeInit ==
    /\ \E ps \in OrganizeLists, mv \in BOOLEAN, d \in Disks :
          /\ orgIn = [photos |-> ps, move_files |-> mv, disk |-> d]
          /\ disk = d
    /\ org = [pc |-> "loop", i |-> 1, organized_count |-> ZeroCount, log |-> <<>>]

\* path.exists()
Exists(path) == disk[path] # <<>>

\* source_path.exists() alone
MayPlaceOverTarget(photo) == Exists(photo.filepath)

\* source_path.exists() and not target_path.exists(), lines 536 and 544
MayPlace(photo) == Exists(photo.filepath) /\ ~Exists(TargetPath(photo))

\* organized_count[category] += 1 on every record, placed or not
CountedAlways(count, category, placed) == [count EXCEPT ![category] = @ + 1]

\* lines 539 and 547: organized_count[category] += 1, after the file is
\* in place
Counted(count, category, placed) ==
    IF placed THEN [count EXCEPT ![category] = @ + 1] ELSE count

\* the loop goes on to the next record
Advance(outcome, placed) ==
    LET photo == orgIn.photos[org.i]
    IN  org' = [org EXCEPT !.i = @ + 1,
                           !.organized_count = Counted(@, CategoryOf(photo), placed),
                           !.log = Append(@, outcome)]

\* lines 520 and 525 stand outside the try: a mkdir that raises (no
\* permission, a regular file of that name) ends organize_photos
OrganizeMkdirRaises ==
    /\ org.pc = "loop"
    /\ org.i <= Len(orgIn.photos)
    /\ org' = [org EXCEPT !.pc = "raised", !.log = Append(@, "mkdir raised")]
    /\ UNCHANGED <<orgIn, disk>>
    /\ UNCHANGED <<classifyVars, cacheVars, mainVars, poolVars, progressVars>>

\* lines 536-539 and 544-547: shutil.move or shutil.copy2 puts the file at
\* the target; a move takes it from the source
OrganizePlace ==
    /\ org.pc = "loop"
    /\ org.i <= Len(orgIn.photos)
    /\ LET photo == orgIn.photos[org.i]
       IN  /\ MayPlace(photo)
           /\ disk' = [disk EXCEPT ![TargetPath(photo)] = disk[photo.filepath],
                                   ![photo.filepath] =
                                       IF orgIn.move_files THEN <<>> ELSE @]
    /\ Advance("placed", TRUE)
    /\ UNCHANGED orgIn
    /\ UNCHANGED <<classifyVars, cacheVars, mainVars, poolVars, progressVars>>

\* shutil.move or shutil.copy2 raises, before it wrote anything or with a
\* part of the file written at the target; the source is as it was, and
\* line 550 logs the error
OrganizePlaceRaises(partial) ==
    /\ org.pc = "loop"
    /\ org.i <= Len(orgIn.photos)
    /\ LET photo == orgIn.photos[org.i]
       IN  /\ MayPlace(photo)
           /\ disk' = IF partial
                      THEN [disk EXCEPT ![TargetPath(photo)] = <<"partial">>]
                      ELSE disk
    /\ Advance("raised", FALSE)
    /\ UNCHANGED orgIn
    /\ UNCHANGED <<classifyVars, cacheVars, mainVars, poolVars, progressVars>>

\* lines 540 and 548: the target is there, which is logged, or the source
\* is not, which is not; nothing is written
OrganizeSkip ==
    /\ org.pc = "loop"
    /\ org.i <= Len(orgIn.photos)
    /\ LET photo == orgIn.photos[org.i]
       IN  /\ ~MayPlace(photo)
           /\ Advance(IF Exists(TargetPath(photo)) THEN "target exists"
                      ELSE "source missing", FALSE)
    /\ UNCHANGED <<orgIn, disk>>
    /\ UNCHANGED <<classifyVars, cacheVars, mainVars, poolVars, progressVars>>

\* line 553: return dict(organized_count)
OrganizeReturn ==
    /\ org.pc = "loop"
    /\ org.i > Len(orgIn.photos)
    /\ org' = [org EXCEPT !.pc = "done"]
    /\ UNCHANGED <<orgIn, disk>>
    /\ UNCHANGED <<classifyVars, cacheVars, mainVars, poolVars, progressVars>>

OrganizeNext ==
    \/ OrganizeMkdirRaises
    \/ OrganizePlace
    \/ \E partial \in BOOLEAN : OrganizePlaceRaises(partial)
    \/ OrganizeSkip
    \/ OrganizeReturn

(***************************************************************************)
(* The extraction phase at rest: nothing submitted, no run in progress.    *)
(***************************************************************************)
\* lines 36-38 of _load_config, with max_workers as line 61 computes it
\* (scaled: more workers than there are tasks)
DefaultSettings == [cache_enabled |-> TRUE, batch_size |-> 50, max_workers |-> 5]

PoolAtRest ==
    /\ settings = DefaultSettings
    /\ filepaths = <<>>
    /\ submitted = 0
    /\ batchTask = <<>>
    /\ collected = {}
    /\ pool_results = <<>>

ProgressAtRest ==
    /\ pwIn = [n |-> 0, readable |-> "all", progress_file |-> FALSE]
    /\ pw = [pc |-> "idle", run |-> 0, remaining |-> <<>>, i |-> 0,
             results |-> <<>>, processed |-> {}]
    /\ marker = [exists |-> FALSE, intact |-> FALSE, paths |-> {}]
    /\ pwGhost = [ended |-> "", handled |-> {}, redone |-> {}]

RunAtRest == PoolAtRest /\ ProgressAtRest /\ OrganizeAtRest

(***************************************************************************)
(* main from its first line to the promotion of the bursts, on the         *)
(* standard path: the configuration is loaded, the files are found, and    *)
(* process_files_parallel runs one task per file (get_exif_data_cached,    *)
(* cache enabled) or one per batch (get_exif_data_batch, cache disabled)   *)
(* on a pool of max_workers threads.                                       *)
(***************************************************************************)
SettingsChoices ==
    [cache_enabled : BOOLEAN, batch_size : {1, 50}, max_workers : {1, 5}]

\* what source_dir.rglob('*.ARW') may find: no file is listed twice
FileLists ==
    {<<>>, <<"2024/DSC1.ARW">>, <<"2024/DSC1.ARW", "trip/DSC1.ARW">>,
     <<"trip/DSC1.ARW", "2024/DSC1.ARW">>}

Min(a, b) == IF a < b THEN a ELSE b

\* range(0, len(filepaths), batch_size), lines 154-155
NBatches(n, size) == (n + size - 1) \div size

NTasks ==
    IF settings.cache_enabled THEN Len(filepaths)
    ELSE NBatches(Len(filepaths), settings.batch_size)

\* filepaths[i:i + batch_size] of the k-th batch
BatchOf(k) ==
    SubSeq(filepaths, (k - 1) * settings.batch_size + 1,
           Min(k * settings.batch_size, Len(filepaths)))

\* where a submitted task stands
TaskState(k) ==
    IF k > submitted THEN "new"
    ELSE IF settings.cache_enabled
         THEN LET f == filepaths[k]
              IN  IF call[f].pc # "idle" THEN "running"
                  ELSE IF call[f].n = 0 THEN "queued" ELSE "done"
         ELSE batchTask[k].state

Running == Cardinality({k \in 1..submitted : TaskState(k) = "running"})

\* a thread of the pool is free to take a queued task
WorkerFree == Running < settings.max_workers

\* lines 566-567 and _load_config: whatever the user configuration holds
\* replaces the defaults; nothing is validated
LoadConfig ==
    /\ mpc = "start"
    /\ \E cfg \in Configs \cup MalformedConfigs, st \in SettingsChoices :
          /\ config' = cfg
          /\ settings' = st
    /\ mpc' = "configured"
    /\ UNCHANGED <<exif, labels>>
    /\ UNCHANGED <<arw_files, results, photoInfo, all_photos, bursts, category_distribution, summary>>
    /\ UNCHANGED <<filepaths, submitted, batchTask, collected, pool_results>>
    /\ UNCHANGED <<cacheVars, progressVars, organizeVars>>

\* lines 583-609 and 139-144: the files are listed; with none main returns
\* None, otherwise process_files_parallel is entered and the pool created
FindFiles ==
    /\ mpc = "configured"
    /\ arw_files' = Len(filepaths)
    /\ IF filepaths = <<>>
       THEN mpc' = "returned None" /\ UNCHANGED batchTask
       ELSE /\ mpc' = "submitting"
            /\ batchTask' =
                  IF settings.cache_enabled THEN <<>>
                  ELSE [k \in 1..NTasks |->
                           [state |-> "queued", produced |-> {}, result |-> <<>>]]
    /\ UNCHANGED <<results, photoInfo, all_photos, bursts, category_distribution, summary>>
    /\ UNCHANGED <<settings, filepaths, submitted, collected, pool_results>>
    /\ UNCHANGED <<classifyVars, cacheVars, progressVars, organizeVars>>

\* lines 147-156: executor.submit, one task after the other; the tasks
\* already submitted may run meanwhile
Submit ==
    /\ mpc = "submitting"
    /\ submitted < NTasks
    /\ submitted' = submitted + 1
    /\ mpc' = IF submitted + 1 = NTasks THEN "collecting" ELSE "submitting"
    /\ UNCHANGED <<arw_files, results, photoInfo, all_photos, bursts, category_distribution, summary>>
    /\ UNCHANGED <<settings, filepaths, batchTask, collected, pool_results>>
    /\ UNCHANGED <<classifyVars, cacheVars, progressVars, organizeVars>>

\* a free thread takes a queued get_exif_data_cached task and runs it up to
\* the cache lookup
WorkerLooksUp(k) ==
    /\ settings.cache_enabled
    /\ TaskState(k) = "queued"
    /\ WorkerFree
    /\ CachedCallBegin(filepaths[k])

WorkerLookupRaises(k) ==
    /\ settings.cache_enabled
    /\ TaskState(k) = "queued"
    /\ WorkerFree
    /\ CacheStatRaises(filepaths[k])

\* a free thread takes a queued get_exif_data_batch task
BatchBegin(k) ==
    /\ ~settings.cache_enabled
    /\ TaskState(k) = "queued"
    /\ WorkerFree
    /\ batchTask' = [batchTask EXCEPT ![k].state = "running"]
    /\ UNCHANGED <<settings, filepaths, submitted, collected, pool_results>>
    /\ UNCHANGED <<classifyVars, cacheVars, mainVars, progressVars, organizeVars>>

\* the entries exiftool -j prints for a batch of which it could read the
\* files in kept: one per file read, in the order of the command line
ToolEntries(batch, kept) ==
    LET read == SelectSeq(batch, LAMBDA f : f \in kept)
    IN  [j \in 1..Len(read) |-> ExifOf(read[j], fileVer[read[j]])]

\* lines 123-127: returncode 0 and output that parses; the j-th entry is
\* paired with batch[j]
BatchToolOk(k, kept) ==
    /\ ~settings.cache_enabled
    /\ TaskState(k) = "running"
    /\ LET batch == BatchOf(k)
           batch_data == ToolEntries(batch, kept)
       IN  batchTask' = [batchTask EXCEPT ![k] =
              [state |-> "done", produced |-> kept,
               result |-> [j \in 1..Len(batch_data) |->
                              [filepath |-> batch[j], exif_data |-> batch_data[j]]]]]
    /\ UNCHANGED <<settings, filepaths, submitted, collected, pool_results>>
    /\ UNCHANGED <<classifyVars, cacheVars, mainVars, progressVars, organizeVars>>

\* lines 128-133: a non-zero exit, the 60 s timeout or output that does
\* not parse, whatever the tool had read: the batch gives nothing
BatchToolFails(k, kept) ==
    /\ ~settings.cache_enabled
    /\ TaskState(k) = "running"
    /\ batchTask' = [batchTask EXCEPT ![k] =
          [state |-> "done", produced |-> kept, result |-> <<>>]]
    /\ UNCHANGED <<settings, filepaths, submitted, collected, pool_results>>
    /\ UNCHANGED <<classifyVars, cacheVars, mainVars, progressVars, organizeVars>>

\* if exif_data: a call that returned a record, fresh or from the cache
GaveFreshRecord(how) == how = "fresh"

GaveRecord(how) == how \in {"fresh", "cached"}

\* lines 158-171, one turn of the as_completed loop: a finished future is
\* taken and its result kept; None and an exception of the task add nothing
Collect(k) ==
    /\ mpc = "collecting"
    /\ k \in 1..NTasks \ collected
    /\ TaskState(k) = "done"
    /\ collected' = collected \cup {k}
    /\ pool_results' =
          IF settings.cache_enabled
          THEN LET f == filepaths[k]
               IN  IF GaveRecord(returned[f].how)
                   THEN Append(pool_results, [filepath |-> f, exif_data |-> returned[f].data])
                   ELSE pool_results
          ELSE pool_results \o batchTask[k].result
    /\ UNCHANGED <<settings, filepaths, submitted, batchTask>>
    /\ UNCHANGED <<classifyVars, cacheVars, mainVars, progressVars, organizeVars>>

\* as_completed has yielded every future
LoopOverEarly == collected # {}

LoopOver == collected = 1..NTasks

\* what exiftool reports of a file, as far as main reads it
Metadata(data) ==
    IF data.src = "2024/DSC1.ARW"
    THEN [FileName |-> 1, DateTimeOriginal |-> DateAt(1000), exif |-> PortraitShot]
    ELSE [FileName |-> 1, DateTimeOriginal |-> DateAt(1005), exif |-> NightShot]

\* lines 173 and 609: the loop is over, the executor is shut down and the
\* list goes back to main
PoolReturn ==
    /\ mpc = "collecting"
    /\ LoopOver
    /\ results' = [i \in 1..Len(pool_results) |->
                      [filepath |-> pool_results[i].filepath,
                       exif_data |-> Metadata(pool_results[i].exif_data)]]
    /\ mpc' = "results"
    /\ UNCHANGED <<arw_files, photoInfo, all_photos, bursts, category_distribution, summary>>
    /\ UNCHANGED <<classifyVars, cacheVars, runVars>>

RunInit ==
    /\ arw_files = 0
    /\ results = <<>>
    /\ photoInfo = <<>>
    /\ all_photos = <<>>
    /\ bursts = <<>>
    /\ category_distribution = <<>>
    /\ summary = <<>>
    /\ mpc = "start"
    /\ settings = DefaultSettings
    /\ filepaths \in FileLists
    /\ submitted = 0
    /\ batchTask = <<>>
    /\ collected = {}
    /\ pool_results = <<>>

RunNext ==
    \/ LoadConfig
    \/ FindFiles
    \/ Submit
    \/ \E k \in 1..submitted : WorkerLooksUp(k)
    \/ \E k \in 1..submitted : WorkerLookupRaises(k)
    \/ \E f \in Files : ExtractOk(f)
    \/ \E f \in Files : ExtractFails(f)
    \/ \E f \in Files : CacheWriteOk(f)
    \/ \E f \in Files : CacheOpenFails(f)
    \/ \E f \in Files : CacheDumpFails(f)
    \/ \E k \in 1..submitted : BatchBegin(k)
    \/ \E k \in 1..submitted : \E kept \in SUBSET Range(BatchOf(k)) : BatchToolOk(k, kept)
    \/ \E k \in 1..submitted : \E kept \in SUBSET Range(BatchOf(k)) : BatchToolFails(k, kept)
    \/ \E k \in 1..submitted : Collect(k)
    \/ PoolReturn
    \/ ScorePhotos
    \/ DetectBursts
    \/ PromoteBursts
    \/ Summarize

(***************************************************************************)
(* process_with_progress: a run over the files 1..n, which may be          *)
(* interrupted between two files, and a second run started afterwards on   *)
(* the same files with the progress file the first one left.  A file is    *)
(* readable or not, the same in both runs.                                 *)
(***************************************************************************)
\* line 198: progress is saved when len(results) is a multiple of this
SavePeriod == 100

Readable(pattern, f) ==
    CASE pattern = "all" -> TRUE
      [] pattern = "none" -> FALSE
      [] pattern = "sixth fails" -> f % 6 # 0

ProgressInputs ==
    [n : {3, MaxFiles}, readable : {"all", "none", "sixth fails"}, progress_file : BOOLEAN]

ProgressInit ==
    /\ pwIn \in ProgressInputs
    /\ pw = [pc |-> "idle", run |-> 0, remaining |-> <<>>, i |-> 0,
             results |-> <<>>, processed |-> {}]
    /\ marker = [exists |-> FALSE, intact |-> FALSE, paths |-> {}]
    /\ pwGhost = [ended |-> "", handled |-> {}, redone |-> {}]

\* lines 177-185: the set read from the progress file, and the empty set
\* when there is none or it does not load
LoadProcessed ==
    IF pwIn.progress_file /\ marker.exists /\ marker.intact THEN marker.paths ELSE {}

\* lines 177-190: the call starts, the first one or the one after the
\* first has ended
StartRun ==
    /\ \/ pw.pc = "idle"
       \/ pw.pc \in {"interrupted", "returned"} /\ pw.run = 1
    /\ LET processed == LoadProcessed
       IN  pw' = [pc |-> "loop", run |-> pw.run + 1,
                  remaining |-> SelectSeq([f \in 1..pwIn.n |-> f], LAMBDA f : f \notin processed),
                  i |-> 1, results |-> <<>>, processed |-> processed]
    /\ UNCHANGED <<pwIn, marker, pwGhost>>
    /\ UNCHANGED <<classifyVars, cacheVars, mainVars, poolVars, organizeVars>>

\* len(results) % 100 == 0 and config.config['progress_file']
SaveDue(res) == Len(res) % SavePeriod = 0 /\ pwIn.progress_file

\* lines 192-195 for the file at position i
AfterFile ==
    LET f == pw.remaining[pw.i]
    IN  IF Readable(pwIn.readable, f)
        THEN [pw EXCEPT !.i = @ + 1, !.results = Append(@, f), !.processed = @ \cup {f}]
        ELSE [pw EXCEPT !.i = @ + 1]

CountRedone ==
    LET f == pw.remaining[pw.i]
    IN  IF pw.run = 2 /\ f \in pwGhost.handled
        THEN [pwGhost EXCEPT !.redone = @ \cup {f}]
        ELSE pwGhost

\* lines 191-203, one turn of the loop; the progress file is written when
\* it is due
ProcessNext ==
    /\ pw.pc = "loop"
    /\ pw.i <= Len(pw.remaining)
    /\ pw' = AfterFile
    /\ pwGhost' = CountRedone
    /\ marker' =
          IF Readable(pwIn.readable, pw.remaining[pw.i]) /\ SaveDue(AfterFile.results)
          THEN [exists |-> TRUE, intact |-> TRUE, paths |-> AfterFile.processed]
          ELSE marker
    /\ UNCHANGED pwIn
    /\ UNCHANGED <<classifyVars, cacheVars, mainVars, poolVars, organizeVars>>

\* the same turn when the save fails: open() raises and the file stays as
\* it was, or json.dump raises and leaves a file that does not load
ProcessNextSaveFails(how) ==
    /\ pw.pc = "loop"
    /\ pw.i <= Len(pw.remaining)
    /\ Readable(pwIn.readable, pw.remaining[pw.i])
    /\ SaveDue(AfterFile.results)
    /\ pw' = AfterFile
    /\ pwGhost' = CountRedone
    /\ marker' = IF how = "open" THEN marker
                 ELSE [exists |-> TRUE, intact |-> FALSE, paths |-> {}]
    /\ UNCHANGED pwIn
    /\ UNCHANGED <<classifyVars, cacheVars, mainVars, poolVars, organizeVars>>

\* the files the run has handled so far, read or failed
Handled == {pw.remaining[j] : j \in 1..(pw.i - 1)}

\* line 205
FinishRun ==
    /\ pw.pc = "loop"
    /\ pw.i > Len(pw.remaining)
    /\ pw' = [pw EXCEPT !.pc = "returned"]
    /\ pwGhost' = IF pw.run = 1
                  THEN [pwGhost EXCEPT !.ended = "completed", !.handled = Handled]
                  ELSE pwGhost
    /\ UNCHANGED <<pwIn, marker>>
    /\ UNCHANGED <<classifyVars, cacheVars, mainVars, poolVars, organizeVars>>

\* the first run is stopped between two files (KeyboardInterrupt, a kill):
\* nothing is written on the way out
Interrupt ==
    /\ pw.pc = "loop"
    /\ pw.run = 1
    /\ pw' = [pw EXCEPT !.pc = "interrupted"]
    /\ pwGhost' = [pwGhost EXCEPT !.ended = "interrupted", !.handled = Handled]
    /\ UNCHANGED <<pwIn, marker>>
    /\ UNCHANGED <<classifyVars, cacheVars, mainVars, poolVars, organizeVars>>

ProgressNext ==
    \/ StartRun
    \/ ProcessNext
    \/ \E how \in {"open", "dump"} : ProcessNextSaveFails(how)
    \/ FinishRun
    \/ Interrupt

ClassifySpecInit == ClassifyInit /\ CacheAtRest /\ MainAtRest /\ RunAtRest

ClassifySpec == ClassifySpecInit /\ [][Classify]_vars

CacheSpecInit == ClassifyAtRest /\ CacheInit /\ MainAtRest /\ RunAtRest

CacheSpec == CacheSpecInit /\ [][CacheNext]_vars

BurstSpecInit == ClassifyAtRest /\ CacheAtRest /\ BurstInit /\ RunAtRest

BurstSpec == BurstSpecInit /\ [][AnalyzeSequence]_vars

MainSpecInit == ClassifyAtRest /\ CacheAtRest /\ MainInit /\ RunAtRest

MainSpec == MainSpecInit /\ [][MainNext]_vars

RunSpecInit ==
    ClassifyAtRest /\ CacheInit /\ RunInit /\ ProgressAtRest /\ OrganizeAtRest

RunSpec == RunSpecInit /\ [][RunNext]_vars

ProgressSpecInit ==
    /\ ClassifyAtRest /\ CacheAtRest /\ MainAtRest /\ PoolAtRest /\ ProgressInit
    /\ OrganizeAtRest

ProgressSpec == ProgressSpecInit /\ [][ProgressNext]_vars

OrganizeSpecInit ==
    /\ ClassifyAtRest /\ CacheAtRest /\ MainAtRest /\ PoolAtRest /\ ProgressAtRest
    /\ OrganizeInit

OrganizeSpec == OrganizeSpecInit /\ [][OrganizeNext]_vars

(***************************************************************************)
(* The scoring engine: claims C1 to C3, under ClassifySpec.                *)
(***************************************************************************)

\* C1: every call of analyze_photo_for_category returns one label, the
\* label is a configured category name or "Uncategorized", and every call
\* on the same record under the same rules returns the label the first
\* call returned.
C1_LabelIsCategoryAndRepeats ==
    \A i \in 1..Len(labels) :
        /\ labels[i] \in Range(config.order) \cup {"Uncategorized"}
        /\ labels[i] = labels[1]

C1_Witness ==
    /\ Len(labels) >= 2
    /\ config = DefaultConfig
    /\ labels[1] = "Uncategorized"
    /\ labels[2] = "Uncategorized"

\* C2: the label is "Uncategorized" exactly when every category scores
\* below 3, and when some category scores 3 or more the label is a
\* category no other category outscores.
C2_ThresholdAndMaximum ==
    \A i \in 1..Len(labels) :
        LET scores == CategoryScores(exif, config)
            high == \E c \in DOMAIN scores : scores[c] >= 3
        IN  /\ (labels[i] = "Uncategorized") <=> ~high
            /\ high => /\ labels[i] \in DOMAIN scores
                       /\ \A c \in DOMAIN scores : scores[c] <= scores[labels[i]]

\* a record whose leading category has a positive score below the threshold
C2_Witness ==
    /\ Len(labels) >= 1
    /\ labels[1] = "Uncategorized"
    /\ \E c \in Range(config.order) : CategoryScores(exif, config)[c] = 2

\* C3: when the label is a category, no category declared before it in the
\* configuration has the same score; with the default order a tie of
\* Portrait and Landscape at the maximum gives Portrait.
C3_TieGoesToFirstDeclared ==
    \A i \in 1..Len(labels) :
        LET scores == CategoryScores(exif, config)
            l == labels[i]
        IN  /\ l # "Uncategorized" =>
                \A j \in 1..Len(config.order) :
                    (config.order[j] # l /\ scores[config.order[j]] = scores[l])
                        => \E k \in 1..(j - 1) : config.order[k] = l
            /\ ( /\ config = DefaultConfig
                 /\ scores["Portrait"] = scores["Landscape"]
                 /\ scores["Portrait"] >= 3
                 /\ \A c \in DOMAIN scores : scores[c] <= scores["Portrait"] )
               => l = "Portrait"

C3_Witness ==
    /\ Len(labels) >= 1
    /\ config = DefaultConfig
    /\ LET scores == CategoryScores(exif, config)
       IN  /\ scores["Portrait"] = scores["Landscape"]
           /\ scores["Portrait"] >= 3
           /\ \A c \in DOMAIN scores : scores[c] <= scores["Portrait"]
    /\ labels[1] = "Portrait"

(***************************************************************************)
(* The EXIF cache: claims C4 to C6, under CacheSpec.                       *)
(***************************************************************************)
CallStarts(f) == call[f].pc = "idle" /\ call'[f].n = call[f].n + 1

ServedFromCache(f) == CallStarts(f) /\ call'[f].pc = "idle" /\ returned'[f].how = "cached"

ExtractorInvoked(f) == call[f].pc = "idle" /\ call'[f].pc = "extract"

\* the call ended at line 91 with an exception
RaisedAtLookup(f) == CallStarts(f) /\ call'[f].pc = "idle" /\ returned'[f].how = "raised"

\* C4: a call returns the cached record only when the cache file exists
\* with a time strictly newer than the source file's modified time; when
\* there is no cache file, or its time is equal or older, the call returns
\* nothing from the cache and goes on to the extractor.  (A call in which
\* the two times could not be read makes no comparison.)
C4_ServedOnlyWhenStrictlyNewer ==
    [][\A f \in Files :
        LET entry == cache[cache_file(f)]
        IN  (CallStarts(f) /\ ~RaisedAtLookup(f)) =>
              /\ ServedFromCache(f) => (entry.exists /\ entry.mtime > fileMtime[f])
              /\ (~entry.exists \/ entry.mtime <= fileMtime[f])
                    => (ExtractorInvoked(f) /\ returned'[f] = returned[f])]_vars

\* a call that found a cache file stamped with the very time of the source
\* file and went on to the extractor
C4_Witness ==
    \E f \in Files :
        /\ call[f].pc = "extract"
        /\ cache[cache_file(f)].exists
        /\ cache[cache_file(f)].intact
        /\ cache[cache_file(f)].mtime = fileMtime[f]

\* C5: a call for a file never returns a record extracted from another file.
C5_KeyedByFileIdentity ==
    \A f \in Files : returned[f].how = "cached" => returned[f].data.src = f

\* C6, as claimed: once a file's extraction has been cached, and as long as
\* the file is not modified, no call on the file invokes the extractor.
C6_NoSecondExtraction ==
    [][\A f \in Files : cachedSince[f] => ~ExtractorInvoked(f)]_vars

\* C6, amended: the same, as long as the cache file can be unpickled and
\* its time is strictly newer than the file's modified time.
C6_NoSecondExtractionWhileNewer ==
    [][\A f \in Files :
        LET entry == cache[cache_file(f)]
        IN  (cachedSince[f] /\ entry.intact /\ entry.mtime > fileMtime[f])
                => ~ExtractorInvoked(f)]_vars

\* the second call on a cached, unmodified file returned the cached record
C6_Witness ==
    \E f \in Files :
        /\ cachedSince[f]
        /\ call[f].n >= 2
        /\ call[f].pc = "idle"
        /\ returned[f] = [how |-> "cached", data |-> ExifOf(f, fileVer[f])]

(***************************************************************************)
(* Burst detection: claims C7 to C9, under BurstSpec.                      *)
(***************************************************************************)
SortedNow == SortPhotos(photoInfo, all_photos)

TsAt(s, i) == photoInfo[s[i]].capture_timestamp

\* the photos at i and i + 1 of s are at most one second apart
OneSecondApart(s, i) == TsAt(s, i + 1) - TsAt(s, i) <= 10

\* the same, and the earlier of the two has a known capture time
OneSecondAfterKnown(s, i) == TsAt(s, i) # 0 /\ OneSecondApart(s, i)

\* the maximal stretches of s in which every adjacent pair is Close
MaximalRuns(s, Close(_, _)) ==
    { SubSeq(s, a, b) : <<a, b>> \in
        { ab \in (1..Len(s)) \X (1..Len(s)) :
            /\ ab[1] <= ab[2]
            /\ \A i \in ab[1]..(ab[2] - 1) : Close(s, i)
            /\ ab[1] = 1 \/ ~Close(s, ab[1] - 1)
            /\ ab[2] = Len(s) \/ ~Close(s, ab[2]) } }

\* bursts is exactly the runs of five or more, each once, in sorted order
IsExactly(runs) ==
    /\ Range(bursts) = {r \in runs : Len(r) >= 5}
    /\ Len(bursts) = Cardinality({r \in runs : Len(r) >= 5})
    /\ \A i \in 1..(Len(bursts) - 1) :
          TsAt(bursts[i], 1) <= TsAt(bursts[i + 1], 1)

SixInARowGivesOneGroup ==
    [i \in 1..Len(all_photos) |-> photoInfo[all_photos[i]].capture_timestamp] = SixInARow
        => bursts = <<SortedNow>> /\ Len(bursts[1]) = 6

\* C7, as claimed: the groups returned are exactly the maximal runs, in
\* (capture_timestamp, filename) order, of photos whose every adjacent pair
\* is at most one second apart, that have five members or more; and the
\* six photos at 100 to 102.3 seconds give one group of six.
C7_ExactlyTheRuns ==
    mpc = "returned" =>
        IsExactly(MaximalRuns(SortedNow, OneSecondApart)) /\ SixInARowGivesOneGroup

\* C7, amended: the same, where a pair counts as at most one second apart
\* only if the earlier of the two has a non-zero capture_timestamp.
C7_ExactlyTheRunsOfDatedPhotos ==
    mpc = "returned" =>
        IsExactly(MaximalRuns(SortedNow, OneSecondAfterKnown)) /\ SixInARowGivesOneGroup

\* two runs and two undated photos: two groups, the undated in neither
C7_Witness ==
    /\ mpc = "returned"
    /\ Len(all_photos) = Len(TwoRuns)
    /\ Len(bursts) = 2
    /\ Len(bursts[1]) = 5
    /\ Len(bursts[2]) = 6
    /\ \E p \in Range(all_photos) : photoInfo[p].capture_timestamp = 0

\* C8: every group returned has at least five members, and a list of four
\* photos or fewer gives no group.
C8_AtLeastFive ==
    mpc = "returned" =>
        /\ \A i \in 1..Len(bursts) : Len(bursts[i]) >= 5
        /\ Len(all_photos) <= 4 => bursts = <<>>

\* four photos within one second of each other, and no group
C8_Witness ==
    /\ mpc = "returned"
    /\ Len(all_photos) = 4
    /\ \A p \in Range(all_photos) : photoInfo[p].capture_timestamp \in {5, 10}
    /\ bursts = <<>>

\* C9: no group holds a photo whose capture_timestamp is 0, and the members
\* of a group follow each other in the sorted order with at most one second
\* between two neighbours, so that no undated photo links two runs.
C9_UndatedNeverGrouped ==
    mpc = "returned" =>
        \A i \in 1..Len(bursts) :
            /\ \A k \in 1..Len(bursts[i]) : TsAt(bursts[i], k) # 0
            /\ \A k \in 1..(Len(bursts[i]) - 1) :
                  /\ TsAt(bursts[i], k + 1) - TsAt(bursts[i], k) <= 10
                  /\ \E j \in 1..(Len(SortedNow) - 1) :
                        SortedNow[j] = bursts[i][k] /\ SortedNow[j + 1] = bursts[i][k + 1]

\* an undated photo, then five photos that start within a second of the
\* epoch: one group of five, without the undated photo
C9_Witness ==
    /\ mpc = "returned"
    /\ Len(all_photos) = 6
    /\ Cardinality({p \in Range(all_photos) : photoInfo[p].capture_timestamp = 0}) = 1
    /\ \E p \in Range(all_photos) : photoInfo[p].capture_timestamp = 5
    /\ Len(bursts) = 1
    /\ Len(bursts[1]) = 5

(***************************************************************************)
(* Promotion in main: claim C10, under MainSpec.                           *)
(***************************************************************************)

\* C10: once main has promoted the bursts, every member of every burst has
\* analyzed_category "Event".
C10_BurstMembersAreEvents ==
    mpc = "promoted" =>
        \A i \in 1..Len(bursts) : \A k \in 1..Len(bursts[i]) :
            photoInfo[bursts[i][k]].analyzed_category = "Event"

\* a burst with members the scoring engine had labelled Portrait,
\* Architecture and Uncategorized
C10_Witness ==
    /\ mpc = "promoted"
    /\ Len(bursts) >= 1
    /\ \A l \in {"Portrait", "Architecture", "Uncategorized"} :
          \E k \in 1..Len(bursts[1]) :
              analyze_photo_for_category(results[bursts[1][k]].exif_data.exif, config) = l

(***************************************************************************)
(* Both paths of main: claim C11, under MainSpec.                          *)
(***************************************************************************)

\* C11: whenever main hands its records to burst detection and to
\* promotion, each of them has an analyzed_category from the scoring engine.
C11_ScoredBeforeBursts ==
    mpc \in {"scored", "loaded", "detected"} =>
        \A i \in 1..Len(all_photos) :
            photoInfo[all_photos[i]].analyzed_category \in AllLabels

(***************************************************************************)
(* Failures of the cache: claim C14, under CacheSpec.                      *)
(***************************************************************************)

\* C14: a failure to read or to write the cache entry is a miss.  A call
\* that meets a cache file it cannot use goes on to the extractor, a call
\* whose cache write failed returns what the extractor gave, and no call
\* ends with an exception.
C14_CacheFailureIsAMiss ==
    [][\A f \in Files :
        LET entry == cache[cache_file(f)]
        IN  /\ (CallStarts(f) /\ entry.exists /\ ~entry.intact) => ExtractorInvoked(f)
            /\ (call[f].pc = "write" /\ call'[f].pc = "idle")
                  => returned'[f] = [how |-> "fresh", data |-> call[f].data]
            /\ returned'[f].how # "raised"]_vars

(***************************************************************************)
(* The extraction phase of main: claims C12, C13, C15, C19 and C20, under  *)
(* RunSpec.                                                                *)
(***************************************************************************)
Returned == mpc \in {"results", "scored", "detected", "promoted", "KeyError"}

ResultFiles == {pool_results[i].filepath : i \in 1..Len(pool_results)}

\* C12: once process_files_parallel has returned, and so whenever main
\* scores records or detects bursts, every submitted task has finished,
\* with a result or with a failure; none is queued or running.
C12_NoScoringWhileExtracting ==
    Returned =>
        /\ submitted = NTasks
        /\ \A k \in 1..NTasks : TaskState(k) = "done"

\* bursts were detected after two tasks ran side by side, one of which
\* failed
C12_Witness ==
    /\ mpc = "detected"
    /\ settings.cache_enabled
    /\ settings.max_workers = 5
    /\ Len(filepaths) = 2
    /\ \E f \in Files : returned[f].how = "nothing"
    /\ \E f \in Files : returned[f].how = "fresh"

C15_OnlyTheFailedFileIsMissing ==
    (Returned /\ ~settings.cache_enabled) =>
        \A k \in 1..NTasks :
            Cardinality(Range(BatchOf(k)) \ batchTask[k].produced) = 1
                => batchTask[k].produced \subseteq ResultFiles

\* the worker is between the extraction and the end of the cache write,
\* lines 102-108
WritingCache(f) == call[f].pc = "write"

\* C19: at no time are two tasks writing the cache, and never two the
\* same cache file.
C19_OneCacheWriterAtATime ==
    \A f, g \in Files : (WritingCache(f) /\ WritingCache(g)) => f = g

\* C20: under a configuration without a required rule no extraction task
\* is ever submitted.
C20_MalformedConfigStopsBeforeExtraction ==
    (mpc # "start" /\ RaisesKeyError(config)) => submitted = 0

(***************************************************************************)
(* Resuming: claims C16 to C18, under ProgressSpec.                        *)
(***************************************************************************)
\* the record set of one uninterrupted run over the files
UninterruptedRecords == {f \in 1..pwIn.n : Readable(pwIn.readable, f)}

\* C16: a run interrupted after some of the files and started again with
\* the progress file it left returns the records an uninterrupted run
\* returns.
C16_ResumeEquivalence ==
    (pw.pc = "returned" /\ pw.run = 2 /\ pwGhost.ended = "interrupted")
        => Range(pw.results) = UninterruptedRecords

\* C17: with a progress file, the files the run had handled before it was
\* interrupted, read or failed, and that the restarted run handles again
\* are fewer than the save period.
C17_BoundedRedoneWork ==
    (pw.run = 2 /\ pwIn.progress_file /\ pwGhost.ended = "interrupted")
        => Cardinality(pwGhost.redone) < SavePeriod

\* C18: when a run with a progress file ends, by returning or by being
\* stopped, the progress file holds every path the run has processed.
C18_MarkerFlushedAtEnd ==
    (pw.pc \in {"returned", "interrupted"} /\ pwIn.progress_file)
        => pw.processed \subseteq LoadProcessed

(***************************************************************************)
(* The indicators of the scoring engine: claims C21, C22 and C29, under    *)
(* ClassifySpec.                                                           *)
(***************************************************************************)
FocalCategories ==
    {"Portrait", "Landscape", "Street", "Wildlife", "Sports", "Architecture"}

\* C21: for each of Portrait, Landscape, Street, Wildlife, Sports and
\* Architecture, the focal-length indicator adds its amount (4, 4, 3, 5, 4,
\* 3) times the weight of the category when the focal length lies in the
\* focal range configured for that same category, bounds included, and
\* adds nothing otherwise.
C21_FocalIndicatorUsesOwnRange ==
    \A i \in 1..Len(labels) : \A c \in FocalCategories :
        LET amount == CASE c \in {"Portrait", "Landscape", "Sports"} -> 4
                        [] c \in {"Street", "Architecture"} -> 3
                        [] c = "Wildlife" -> 5
            own == config.rules[c].focal_range
            fl == FocalLengthNum(exif)
        IN  FocalIndicator(c, fl, config.rules)
              = IF own[1] <= fl /\ fl <= own[2]
                THEN amount * config.rules[c].weight ELSE 0

\* what the shutter-speed indicator adds to the Sports score of the record
ShutterContribution ==
    SportsScore(exif, config.rules)
      - SportsScore([exif EXCEPT !.ShutterSpeed = NoShutter], config.rules)

\* C22: the shutter-speed indicator adds 3 times the Sports weight when the
\* string is "A/B" with A/B <= 1/500, once the weight when 1/500 < A/B <=
\* 1/100, and nothing otherwise; an absent string, a string that is not
\* A/B, parts that are not numbers and B = 0 add nothing, and the call
\* returns its label.
C22_ShutterIndicator ==
    \A i \in 1..Len(labels) :
        LET s == exif.ShutterSpeed
            w == config.rules.Sports.weight
        IN  /\ labels[i] \in Range(config.order) \cup {"Uncategorized"}
            /\ (s.form = "frac" /\ s.b > 0 /\ 500 * s.a <= s.b)
                   => ShutterContribution = 3 * w
            /\ (s.form = "frac" /\ s.b > 0 /\ 500 * s.a > s.b /\ 100 * s.a <= s.b)
                   => ShutterContribution = w
            /\ (s.form = "frac" /\ s.b > 0 /\ 100 * s.a > s.b)
                   => ShutterContribution = 0
            /\ (s.form # "frac" \/ s.b = 0) => ShutterContribution = 0

\* a shutter speed of exactly 1/500 under the doubled Sports weight
C22_Witness ==
    /\ Len(labels) >= 1
    /\ exif.ShutterSpeed = Frac(1, 500)
    /\ config = UserConfig
    /\ ShutterContribution = 6

\* C29: under the default rules a record with every field unknown is
\* labelled "Architecture": the focal length counts as 0, which lies in the
\* Architecture and Landscape ranges, so Architecture scores 3, Landscape
\* scores 4 - 2 = 2 and every other category 0.
C29_BlankRecordIsArchitecture ==
    (exif = BlankExif /\ config = DefaultConfig) =>
        /\ \A i \in 1..Len(labels) : labels[i] = "Architecture"
        /\ LET scores == CategoryScores(exif, config)
           IN  \A c \in DOMAIN scores :
                   scores[c] = CASE c = "Architecture" -> 3
                                 [] c = "Landscape" -> 2
                                 [] OTHER -> 0

C29_Witness ==
    /\ exif = BlankExif
    /\ config = DefaultConfig
    /\ Len(labels) >= 1
    /\ labels[1] = "Architecture"

(***************************************************************************)
(* The age of a cached record: claim C26, under CacheSpec.                 *)
(***************************************************************************)
\* C26: a call never returns from the cache a record that was extracted
\* from an older version of the file than the one on disk, also when the
\* file was modified between the extractor's read and the cache write.
C26_NeverServesOlderVersion ==
    [][\A f \in Files :
        (ServedFromCache(f) /\ returned'[f].data.src = f)
            => returned'[f].data.ver = fileVer[f]]_vars

(***************************************************************************)
(* The pairs of a batch: claim C27, under RunSpec.                         *)
(***************************************************************************)
\* C27: every (file, record) pair get_exif_data_batch returns pairs the
\* record with the file it was extracted from, also when the tool printed
\* fewer entries than the batch has files.
C27_BatchPairsRecordWithItsFile ==
    ~settings.cache_enabled =>
        \A k \in 1..Len(batchTask) :
            batchTask[k].state = "done" =>
                \A j \in 1..Len(batchTask[k].result) :
                    batchTask[k].result[j].exif_data.src
                        = batchTask[k].result[j].filepath

(***************************************************************************)
(* The summary: claims C23, C24 and C28, under MainSpec.                   *)
(***************************************************************************)
\* the places of all_photos whose record has the category
PlacesWith(c) ==
    {i \in 1..Len(all_photos) : photoInfo[all_photos[i]].analyzed_category = c}

\* C23: in the summary the count of each category is the number of final
\* records, after the promotion of the bursts, with that analyzed
\* category, and the counts add up to total_files.
C23_SummaryCountsMatchRecords ==
    mpc = "summarized" =>
        /\ \A c \in DOMAIN summary.analyzed_categories :
              summary.analyzed_categories[c] = Cardinality(PlacesWith(c))
        /\ \A i \in 1..Len(all_photos) :
              photoInfo[all_photos[i]].analyzed_category
                  \in DOMAIN summary.analyzed_categories
        /\ SumOf(summary.analyzed_categories, DOMAIN summary.analyzed_categories)
              = summary.total_files
        /\ summary.total_files = Len(all_photos)

\* a summary after a burst whose photos were scored Architecture, Portrait
\* and Uncategorized and were all moved to Event
C23_Witness ==
    /\ mpc = "summarized"
    /\ bursts # <<>>
    /\ summary.analyzed_categories["Event"] >= MinBurst
    /\ \E i \in 1..Len(results) :
          /\ analyze_photo_for_category(results[i].exif_data.exif, config) = "Portrait"
          /\ photoInfo[i].analyzed_category = "Event"
    /\ \E c \in DOMAIN summary.analyzed_categories :
          c # "Event" /\ summary.analyzed_categories[c] > 0

\* C24: total_changes is the number of records that have a prior category
\* and whose prior category differs from the final analyzed category; a
\* record without a prior category is not counted.
C24_ChangesCountOnlyPriorCategories ==
    mpc = "summarized" =>
        summary.total_changes =
            Cardinality({i \in 1..Len(all_photos) :
                LET photo == photoInfo[all_photos[i]]
                IN  /\ photo.current_category # ""
                    /\ photo.current_category # photo.analyzed_category})

\* C28: with at least one extracted record main goes through scoring,
\* burst detection, promotion and the summary and raises nothing, also when
\* no record has a capture date that parses (every capture_timestamp 0).
C28_MainReturnsWithoutRaising ==
    (results # <<>> /\ ~TakesLargePath(arw_files))
        => mpc \notin {"KeyError", "NameError", "ValueError"}

(***************************************************************************)
(* Organizing: claims C25 and C30, under OrganizeSpec.                     *)
(***************************************************************************)
\* the records before place n that were put at their target, by category
PlacedBefore(n, c) ==
    {j \in 1..(n - 1) : org.log[j] = "placed" /\ CategoryOf(orgIn.photos[j]) = c}

\* C25: organize_photos attempts every record of its list: a record whose
\* target exists, whose source is missing or whose copy or move raises
\* does not keep the records after it from being handled, and
\* organized_count counts, by category, the files that were copied or
\* moved and no others.  (A call that ends because a directory could not
\* be made ends on a failure of another kind.)
C25_EveryRecordAttempted ==
    /\ \A j \in 1..Len(org.log) :
          org.log[j] \in {"target exists", "source missing", "raised"}
              => \/ Len(org.log) > j        \* the next record was taken up
                 \/ org.pc = "done"          \* or there was none
                 \/ org.pc = "loop" /\ org.i = j + 1
    /\ org.pc = "loop" => Len(org.log) = org.i - 1
    /\ org.pc = "done" => Len(org.log) = Len(orgIn.photos)
    /\ \A c \in DOMAIN org.organized_count :
          org.organized_count[c] = Cardinality(PlacedBefore(Len(org.log) + 1, c))

\* a finished call in which a copy or move raised, a record was skipped
\* and a record after them was put in place
C25_Witness ==
    /\ org.pc = "done"
    /\ \E j, k, l \in 1..Len(org.log) :
          /\ j < l /\ k < l
          /\ org.log[j] = "raised"
          /\ org.log[k] \in {"target exists", "source missing"}
          /\ org.log[l] = "placed"

\* the file of a record is where it was, or at the target of the record
PhotoKept(photo) ==
    \/ disk[photo.filepath] = orgIn.disk[photo.filepath]
    \/ disk[TargetPath(photo)] = orgIn.disk[photo.filepath]

\* C30: organize_photos never replaces a file that is at a target path; in
\* move mode a source file goes only when it has been put at its target;
\* so at every point of a call each photo of the list that was on disk is
\* at its source path or at its target path, also when two records have
\* the same target path.
C30_NoPhotoLost ==
    /\ [](org.pc # "idle" =>
            \A j \in 1..Len(orgIn.photos) : PhotoKept(orgIn.photos[j]))
    /\ [][org.pc # "idle" =>
            /\ \A path \in TargetPaths : Exists(path) => disk'[path] = disk[path]
            /\ \A path \in SourcePaths :
                  (Exists(path) /\ disk'[path] # disk[path]) =>
                      /\ orgIn.move_files
                      /\ orgIn.photos[org.i].filepath = path
                      /\ disk'[TargetPath(orgIn.photos[org.i])] = disk[path]]_vars

\* a finished move in which two records had the same target: the first is
\* at the target, the second still at its source
C30_Witness ==
    /\ org.pc = "done"
    /\ orgIn.move_files
    /\ \E j, k \in 1..Len(orgIn.photos) :
          /\ j < k
          /\ TargetPath(orgIn.photos[j]) = TargetPath(orgIn.photos[k])
          /\ org.log[j] = "placed"
          /\ org.log[k] = "target exists"
          /\ disk[TargetPath(orgIn.photos[j])] = orgIn.photos[j].filepath
          /\ disk[orgIn.photos[j].filepath] = <<>>
          /\ disk[orgIn.photos[k].filepath] = orgIn.photos[k].filepath

====
